---- MODULE Spec2Model ----
(***************************************************************************)
(* State aggregation of the YouTube watch-time counter: the background     *)
(* coordinator (entrypoints/background.ts), the duration formatter and the *)
(* message contract it shares with the per-page extractor.                 *)
(*                                                                         *)
(* JavaScript numbers are modelled as tagged values so that undefined, NaN *)
(* and Infinity are distinct from every integer.  Quotients are kept in    *)
(* ticks (1/TicksPerSecond of a second) so that a division by a playback   *)
(* rate is exact.                                                          *)
(***************************************************************************)
EXTENDS Integers, Sequences, FiniteSets, TLC

----------------------------------------------------------------------------
(* JavaScript values *)

Num(n) == [k |-> "num", v |-> n]
Undefined == [k |-> "undefined", v |-> 0]
NaN == [k |-> "nan", v |-> 0]
Infinity == [k |-> "inf", v |-> 1]
NegInfinity == [k |-> "inf", v |-> -1]

\* Number.isFinite
IsFinite(x) == x.k = "num"

Sign(n) == IF n > 0 THEN 1 ELSE IF n < 0 THEN -1 ELSE 0

\* a - b on JavaScript numbers (undefined coerces to NaN)
JsSub(a, b) ==
  IF a.k \in {"nan", "undefined"} \/ b.k \in {"nan", "undefined"} THEN NaN
  ELSE IF a.k = "num" /\ b.k = "num" THEN Num(a.v - b.v)
  ELSE IF a.k = "inf" /\ b.k = "num" THEN a
  ELSE IF a.k = "num" /\ b.k = "inf" THEN [k |-> "inf", v |-> 0 - b.v]
  ELSE IF a.v = b.v THEN NaN ELSE a

\* x || 1 : undefined, NaN and 0 are falsy
OrOne(x) ==
  IF x.k \in {"undefined", "nan"} \/ (x.k = "num" /\ x.v = 0) THEN Num(1) ELSE x

\* The playback rates of the model, and the tick that makes x / rate exact
\* for every one of them.
Rates == {-2, -1, 0, 1, 2}
Abs(n) == IF n < 0 THEN 0 - n ELSE n
TicksPerSecond ==
  CHOOSE n \in 1..4 :
    /\ \A r \in Rates \ {0} : n % Abs(r) = 0
    /\ \A m \in 1..(n - 1) : \E r \in Rates \ {0} : m % Abs(r) # 0

\* x / r, x in seconds and the quotient in ticks; r is never falsy here
JsDivTicks(x, r) ==
  IF x.k \in {"nan", "undefined"} \/ r.k \in {"nan", "undefined"} THEN NaN
  ELSE IF x.k = "num" /\ r.k = "num" THEN Num((x.v * TicksPerSecond) \div r.v)
  ELSE IF x.k = "inf" /\ r.k = "num" THEN [k |-> "inf", v |-> x.v * Sign(r.v)]
  ELSE IF x.k = "num" /\ r.k = "inf" THEN Num(0)
  ELSE NaN

----------------------------------------------------------------------------
(* utils/time-format: formatDuration, on a total given in ticks *)

formatDuration(totalTicks) ==
  IF totalTicks < 0 THEN "0m"
  ELSE LET totalSeconds == totalTicks \div TicksPerSecond
           hours == totalSeconds \div 3600
           minutes == (totalSeconds % 3600) \div 60
       IN IF hours = 0 THEN ToString(minutes) \o "m"
          ELSE ToString(hours) \o "h" \o ToString(minutes) \o "m"

----------------------------------------------------------------------------
(* URLs *)

HasPrefix(s, p) == Len(s) >= Len(p) /\ SubSeq(s, 1, Len(p)) = p

\* s.includes(sub)
Includes(s, sub) ==
  \E i \in 1..(Len(s) - Len(sub) + 1) : SubSeq(s, i, i + Len(sub) - 1) = sub

YOUTUBE_VIDEO_RE(url) == HasPrefix(url, "https://www.youtube.com/watch")
YOUTUBE_SHORTS_RE(url) == HasPrefix(url, "https://www.youtube.com/shorts/")

\* A pattern that takes every page of the site
isAnyYouTubeUrl(url) ==
  IF url = "" THEN FALSE ELSE HasPrefix(url, "https://www.youtube.com/")

isYouTubeVideoUrl(url) ==
  IF url = "" THEN FALSE
  ELSE YOUTUBE_VIDEO_RE(url) \/ YOUTUBE_SHORTS_RE(url)

WatchUrl == "https://www.youtube.com/watch?v=a"
ShortsUrl == "https://www.youtube.com/shorts/b"
FeedUrl == "https://www.youtube.com/feed"

----------------------------------------------------------------------------
(* The record mapping: a JavaScript Map keeps its keys in insertion order, *)
(* so it is a sequence of records with distinct tabId.                     *)

MapHas(m, t) == \E i \in DOMAIN m : m[i].tabId = t
MapGet(m, t) == m[CHOOSE i \in DOMAIN m : m[i].tabId = t]
MapSet(m, t, r) ==
  IF MapHas(m, t) THEN [i \in DOMAIN m |-> IF m[i].tabId = t THEN r ELSE m[i]]
  ELSE Append(m, r)
MapDelete(m, t) ==
  LET Keep(r) == r.tabId # t IN SelectSeq(m, Keep)
MapKeys(m) == {m[i].tabId : i \in DOMAIN m}

\* The record the coordinator stores for a response (isLiveStream is not
\* copied)
TabDurationInfo(t, response) ==
  [tabId |-> t,
   url |-> response.url,
   title |-> response.title,
   durationSeconds |-> response.durationSeconds,
   currentTimeSeconds |-> response.currentTimeSeconds,
   playbackRate |-> response.playbackRate,
   isLoading |-> response.isLoading,
   videoType |-> response.videoType]

\* One term of the aggregate, in ticks
Remaining(info) ==
  JsDivTicks(JsSub(info.durationSeconds, info.currentTimeSeconds),
             OrOne(info.playbackRate))

\* The loop without its isLoading test
RECURSIVE SumRemainingAll(_)
SumRemainingAll(m) ==
  IF m = <<>> THEN 0
  ELSE LET remaining == Remaining(Head(m))
       IN (IF IsFinite(remaining) /\ remaining.v > 0 THEN remaining.v ELSE 0)
          + SumRemainingAll(Tail(m))

RECURSIVE SumRemaining(_)
SumRemaining(m) ==
  IF m = <<>> THEN 0
  ELSE LET info == Head(m)
           remaining == Remaining(info)
       IN (IF ~info.isLoading /\ IsFinite(remaining) /\ remaining.v > 0
           THEN remaining.v ELSE 0) + SumRemaining(Tail(m))

calculateTotalRemaining(m) == SumRemaining(m)

----------------------------------------------------------------------------
(* Bounds and input sets *)

TabIds == {1, 2}
\* message.sender.tab is undefined (a message that does not come from a tab)
NoTab == 0

\* url.includes("/shorts/")
videoTypeOf(url) == IF Includes(url, "/shorts/") THEN "short" ELSE "video"

DurationResponse(url, d, c, rate, loading, live) ==
  [url |-> url,
   title |-> "Video",
   durationSeconds |-> Num(d),
   currentTimeSeconds |-> Num(c),
   playbackRate |-> rate,
   isLoading |-> loading,
   isLiveStream |-> live,
   videoType |-> videoTypeOf(url)]

\* The DurationResponse values a page sends or answers with: a video partly
\* watched, a page still loading, a short of under a minute played at rate
\* 1, a live stream with a finite duration, and a page that is not a video
\* page.  The extractor sets no playbackRate.
Payloads ==
  {DurationResponse(WatchUrl, 1800, 600, Undefined, FALSE, FALSE),
   DurationResponse(WatchUrl, 0, 0, Undefined, TRUE, FALSE),
   DurationResponse(ShortsUrl, 30, 0, Num(1), FALSE, FALSE),
   DurationResponse(WatchUrl, 1800, 600, Undefined, FALSE, TRUE),
   DurationResponse(FeedUrl, 600, 0, Undefined, FALSE, FALSE)}

\* External events (tab events and messages) one behaviour handles
MaxEvents == 2

\* Pulls that may be pending when a navigation event schedules another one
MaxPending == 1

\* (changeInfo.status, tab.url) of the tabs.onUpdated events
UpdatedInputs ==
  {<<"loading", WatchUrl>>, <<"complete", WatchUrl>>, <<"complete", FeedUrl>>,
   <<"complete", "">>}

\* (details.frameId, details.url) of the onHistoryStateUpdated events
HistoryInputs == {<<0, WatchUrl>>, <<0, FeedUrl>>, <<1, FeedUrl>>}

\* (sender tab, data) of the reportDuration messages
Reports ==
  {<<t, data>> : t \in TabIds, data \in Payloads}
  \cup {<<NoTab, DurationResponse(WatchUrl, 1800, 600, Undefined, FALSE, FALSE)>>}

NoData == [url |-> ""]

\* The value of page where no page is followed
NoPage == [href |-> ""]

\* Values held in browser.storage.local
Absent == [k |-> "absent", v |-> 0]
Null == [k |-> "null", v |-> 0]
Bool(b) == [k |-> "bool", v |-> b]
Array(list) == [k |-> "array", v |-> list]

\* What storage holds when the coordinator starts: the preference and the
\* record list an earlier run left (one of the records loading, with the
\* duration and position it had)
StoredStates ==
  {[displayEnabled |-> Bool(FALSE),
    tabDurationsCache |->
      Array(<<TabDurationInfo(1, DurationResponse(WatchUrl, 1800, 600,
                                                  Undefined, FALSE, FALSE)),
              TabDurationInfo(2, DurationResponse(WatchUrl, 1800, 600,
                                                  Undefined, TRUE, FALSE))>>)]}

----------------------------------------------------------------------------
(* State *)

VARIABLES
  tabDurations,    \* Map<number, TabDurationInfo>, in insertion order
  displayEnabled,  \* the display preference
  persistTimeout,  \* TRUE iff the persistTimeout handle is not null
  persistTimers,   \* number of persistence callbacks the host has queued
  storage,         \* browser.storage.local
  badgeText,       \* text last given to browser.action.setBadgeText
  pulls,           \* pending pulls: delayed (a timer) or sent (awaiting)
  boot,            \* where the startup sequence stands
  page,            \* one page and its extractor (content script)
  last,            \* history: the handler that ran last, with its inputs
  events           \* history: number of external events handled

vars == <<tabDurations, displayEnabled, persistTimeout, persistTimers,
          storage, badgeText, pulls, boot, page, last, events>>

\* A pending pull: requestDurationFromTab(tabId, retries), waiting for its
\* timer (phase "timer") or for the page's answer (phase "sent").  chain is
\* the number of the event that triggered it, sent counts the getDuration
\* messages of the chain so far, stale records that a push for tabId was
\* applied while the request was awaiting its answer, and orphan that the
\* tab was removed while the request was awaiting its answer.
Pull(chain, t, retries, phase, sent, stale) ==
  [chain |-> chain, tabId |-> t, retries |-> retries, phase |-> phase,
   sent |-> sent, stale |-> stale, orphan |-> FALSE]

\* History of the last step: the handler, the tab it was about, its input,
\* what it returned (for a pull, the pending pull it resumed), and, from the
\* state it started in, whether the tab had a record ("none", "loading",
\* "ready") and whether a persistence timer was pending
Before(t) ==
  [record |-> IF ~MapHas(tabDurations, t) THEN "none"
              ELSE IF MapGet(tabDurations, t).isLoading THEN "loading"
              ELSE "ready",
   pending |-> persistTimeout]

Op(op, t, data, ret) ==
  [op |-> op, tabId |-> t, data |-> data, ret |-> ret, before |-> Before(t)]

Init ==
  /\ tabDurations = <<>>
  /\ displayEnabled = TRUE
  /\ persistTimeout = FALSE
  /\ persistTimers = 0
  /\ storage \in StoredStates
  /\ badgeText = ""
  /\ pulls = {}
  /\ boot = "restore"
  /\ page = NoPage
  /\ last = Op("init", NoTab, NoData, FALSE)
  /\ events = 0

----------------------------------------------------------------------------
(* The coordinator: entrypoints/background.ts *)

\* schedulePersist without its guard
schedulePersistAlways ==
  /\ persistTimeout' = TRUE
  /\ persistTimers' = persistTimers + 1

\* schedulePersist: one timer per window
schedulePersist ==
  IF persistTimeout
  THEN UNCHANGED <<persistTimeout, persistTimers>>
  ELSE /\ persistTimeout' = TRUE
       /\ persistTimers' = persistTimers + 1

\* The badge text without the test for a positive total
BadgeTextAlways(m, enabled) ==
  IF ~enabled THEN "" ELSE formatDuration(calculateTotalRemaining(m))

\* The text updateBadge paints for mapping m and preference enabled
BadgeText(m, enabled) ==
  LET totalSeconds == calculateTotalRemaining(m)
  IN IF ~enabled THEN ""
     ELSE IF totalSeconds > 0 THEN formatDuration(totalSeconds) ELSE ""

updateBadge(m, enabled) ==
  /\ badgeText' = BadgeText(m, enabled)
  /\ schedulePersist

\* The callback of the persistence timer
PersistFire ==
  /\ persistTimers > 0
  /\ persistTimers' = persistTimers - 1
  /\ persistTimeout' = FALSE
  /\ storage' = [storage EXCEPT !.tabDurationsCache = Array(tabDurations)]
  /\ UNCHANGED <<boot, page>>
  /\ last' = Op("persist", NoTab, NoData, FALSE)
  /\ UNCHANGED <<tabDurations, displayEnabled, badgeText, pulls, events>>

\* The entries of a stored list that the restore loop loads, in order:
\* those that are truthy and whose tabId is a number (an entry without a
\* tabId field has typeof info.tabId = 'undefined')
RECURSIVE RestoreEntries(_, _)
RestoreEntries(m, list) ==
  IF list = <<>> THEN m
  ELSE LET info == Head(list)
       IN RestoreEntries(IF /\ info # Null
                            /\ "tabId" \in DOMAIN info
                            /\ info.tabId \in Int
                         THEN MapSet(m, info.tabId, info) ELSE m,
                         Tail(list))

\* browser.storage.local.get(...).then: restore the persisted state and
\* repaint; the callback then awaits injectContentScripts
Restore ==
  /\ boot = "restore"
  /\ boot' = "inject"
  /\ UNCHANGED page
  /\ displayEnabled' = IF storage.displayEnabled.k = "bool"
                       THEN storage.displayEnabled.v ELSE displayEnabled
  /\ tabDurations' = IF storage.tabDurationsCache.k = "array"
                     THEN RestoreEntries(tabDurations,
                                         storage.tabDurationsCache.v)
                     ELSE tabDurations
  /\ updateBadge(tabDurations', displayEnabled')
  /\ last' = Op("restore", NoTab, NoData, FALSE)
  /\ UNCHANGED <<storage, pulls, events>>

\* The chain of the pull that scanAllYouTubeTabs sends to tab t
ScanChain(t) == 0 - t

\* The requestDurationFromTab promises that scanAllYouTubeTabs awaits: the
\* first requests of the scan that have not been answered yet.  The scan
\* resumes, in the same turn, when the last of them settles.
Awaited(ps) == {p \in ps : p.chain < 0 /\ p.phase = "sent" /\ p.sent = 1}

\* requestDurationFromTab(tabId, retries) is called when its timer fires:
\* it sends getDuration and awaits the answer
PullSend(p) ==
  /\ p \in pulls
  /\ p.phase = "timer"
  /\ pulls' = (pulls \ {p}) \cup
              {Pull(p.chain, p.tabId, p.retries, "sent", p.sent + 1, FALSE)}
  /\ UNCHANGED <<boot, page>>
  /\ last' = Op("getDuration", p.tabId, NoData, FALSE)
  /\ UNCHANGED <<tabDurations, displayEnabled, persistTimeout, persistTimers,
                 storage, badgeText, events>>

\* The answer applied only to a tab that has no record yet
PullResponseKeepExisting(p, response) ==
  /\ p \in pulls
  /\ p.phase = "sent"
  /\ tabDurations' = IF MapHas(tabDurations, p.tabId) THEN tabDurations
                     ELSE MapSet(tabDurations, p.tabId,
                                 TabDurationInfo(p.tabId, response))
  /\ updateBadge(tabDurations', displayEnabled)
  /\ pulls' = (pulls \ {p}) \cup
              (IF response.isLoading /\ p.retries > 0
               THEN {[p EXCEPT !.retries = @ - 1, !.phase = "timer",
                               !.stale = FALSE]}
               ELSE {})
  /\ boot' = IF Awaited(pulls) = {p} THEN "done" ELSE boot
  /\ UNCHANGED page
  /\ last' = Op("pullResponse", p.tabId, response, p)
  /\ UNCHANGED <<displayEnabled, storage, events>>

\* The retry test written retries >= 0
PullResponseRetryAlways(p, response) ==
  /\ p \in pulls
  /\ p.phase = "sent"
  /\ tabDurations' = MapSet(tabDurations, p.tabId,
                            TabDurationInfo(p.tabId, response))
  /\ updateBadge(tabDurations', displayEnabled)
  /\ pulls' = (pulls \ {p}) \cup
              (IF response.isLoading /\ p.retries >= 0
               THEN {[p EXCEPT !.retries = @ - 1, !.phase = "timer",
                               !.stale = FALSE]}
               ELSE {})
  /\ boot' = IF Awaited(pulls) = {p} THEN "done" ELSE boot
  /\ UNCHANGED page
  /\ last' = Op("pullResponse", p.tabId, response, p)
  /\ UNCHANGED <<displayEnabled, storage, events>>

\* requestDurationFromTab resumes with the page's answer
PullResponse(p, response) ==
  /\ p \in pulls
  /\ p.phase = "sent"
  /\ tabDurations' = MapSet(tabDurations, p.tabId,
                            TabDurationInfo(p.tabId, response))
  /\ updateBadge(tabDurations', displayEnabled)
  /\ pulls' = (pulls \ {p}) \cup
              (IF response.isLoading /\ p.retries > 0
               THEN {Pull(p.chain, p.tabId, p.retries - 1, "timer", p.sent,
                          FALSE)}
               ELSE {})
  /\ boot' = IF Awaited(pulls) = {p} THEN "done" ELSE boot
  /\ UNCHANGED page
  /\ last' = Op("pullResponse", p.tabId, response, p)
  /\ UNCHANGED <<displayEnabled, storage, events>>

\* A catch that drops the record of the tab that did not answer
PullFailDeletes(p) ==
  /\ p \in pulls
  /\ p.phase = "sent"
  /\ pulls' = pulls \ {p}
  /\ tabDurations' = MapDelete(tabDurations, p.tabId)
  /\ updateBadge(tabDurations', displayEnabled)
  /\ boot' = IF Awaited(pulls) = {p} THEN "done" ELSE boot
  /\ UNCHANGED page
  /\ last' = Op("pullFail", p.tabId, NoData, p)
  /\ UNCHANGED <<displayEnabled, storage, events>>

\* A rejection after which the scan that awaited it ends without a repaint
PullFailNoRepaint(p) ==
  /\ p \in pulls
  /\ p.phase = "sent"
  /\ pulls' = pulls \ {p}
  /\ boot' = IF Awaited(pulls) = {p} THEN "done" ELSE boot
  /\ last' = Op("pullFail", p.tabId, NoData, p)
  /\ UNCHANGED <<tabDurations, displayEnabled, storage, events, page,
                 badgeText, persistTimeout, persistTimers>>

\* requestDurationFromTab resumes with a rejection: the catch is empty.
\* When the promise was the last one scanAllYouTubeTabs awaited, the scan
\* resumes and repaints.
PullFail(p) ==
  /\ p \in pulls
  /\ p.phase = "sent"
  /\ pulls' = pulls \ {p}
  /\ IF Awaited(pulls) = {p}
     THEN /\ boot' = "done"
          /\ updateBadge(tabDurations, displayEnabled)
     ELSE UNCHANGED <<boot, badgeText, persistTimeout, persistTimers>>
  /\ last' = Op("pullFail", p.tabId, NoData, p)
  /\ UNCHANGED <<tabDurations, displayEnabled, storage, events, page>>

\* The removal of tab t leaves the requests awaiting t's answer pending
Orphaned(ps, t) ==
  {IF p.tabId = t /\ p.phase = "sent" THEN [p EXCEPT !.orphan = TRUE] ELSE p :
     p \in ps}

\* A removal that deletes the record and does not repaint
OnRemovedNoRepaint(t) ==
  /\ events < MaxEvents
  /\ events' = events + 1
  /\ tabDurations' = MapDelete(tabDurations, t)
  /\ UNCHANGED <<badgeText, persistTimeout, persistTimers>>
  /\ UNCHANGED <<boot, page>>
  /\ last' = Op("onRemoved", t, NoData, FALSE)
  /\ pulls' = Orphaned(pulls, t)
  /\ UNCHANGED <<displayEnabled, storage>>

\* browser.tabs.onRemoved
OnRemoved(t) ==
  /\ events < MaxEvents
  /\ events' = events + 1
  /\ IF MapHas(tabDurations, t)
     THEN /\ tabDurations' = MapDelete(tabDurations, t)
          /\ updateBadge(tabDurations', displayEnabled)
     ELSE UNCHANGED <<tabDurations, badgeText, persistTimeout, persistTimers>>
  /\ UNCHANGED <<boot, page>>
  /\ last' = Op("onRemoved", t, NoData, FALSE)
  /\ pulls' = Orphaned(pulls, t)
  /\ UNCHANGED <<displayEnabled, storage>>

\* browser.tabs.onUpdated; url is tab.url ("" when it is not set)
OnUpdated(t, status, url) ==
  /\ events < MaxEvents
  /\ events' = events + 1
  /\ IF status = "complete" /\ url # ""
     THEN IF isYouTubeVideoUrl(url)
          THEN /\ Cardinality(pulls) < MaxPending
               /\ pulls' = pulls \cup
                           {Pull(events + 1, t, 2, "timer", 0, FALSE)}
               /\ UNCHANGED <<tabDurations, badgeText, persistTimeout,
                              persistTimers>>
          ELSE IF MapHas(tabDurations, t)
          THEN /\ tabDurations' = MapDelete(tabDurations, t)
               /\ updateBadge(tabDurations', displayEnabled)
               /\ UNCHANGED pulls
          ELSE UNCHANGED <<tabDurations, badgeText, persistTimeout,
                           persistTimers, pulls>>
     ELSE UNCHANGED <<tabDurations, badgeText, persistTimeout, persistTimers,
                      pulls>>
  /\ UNCHANGED <<boot, page>>
  /\ last' = Op("onUpdated", t, [url |-> url, status |-> status], FALSE)
  /\ UNCHANGED <<displayEnabled, storage>>

\* The history listener without its frame test
OnHistoryStateUpdatedAnyFrame(t, frameId, url) ==
  /\ events < MaxEvents
  /\ events' = events + 1
  /\ IF isYouTubeVideoUrl(url)
     THEN /\ Cardinality(pulls) < MaxPending
          /\ pulls' = pulls \cup {Pull(events + 1, t, 2, "timer", 0, FALSE)}
          /\ UNCHANGED <<tabDurations, badgeText, persistTimeout,
                         persistTimers>>
     ELSE IF MapHas(tabDurations, t)
     THEN /\ tabDurations' = MapDelete(tabDurations, t)
          /\ updateBadge(tabDurations', displayEnabled)
          /\ UNCHANGED pulls
     ELSE UNCHANGED <<tabDurations, badgeText, persistTimeout, persistTimers,
                      pulls>>
  /\ UNCHANGED <<boot, page>>
  /\ last' = Op("onHistoryStateUpdated", t,
                [url |-> url, frameId |-> frameId], FALSE)
  /\ UNCHANGED <<displayEnabled, storage>>

\* browser.webNavigation.onHistoryStateUpdated (host www.youtube.com)
OnHistoryStateUpdated(t, frameId, url) ==
  /\ events < MaxEvents
  /\ events' = events + 1
  /\ IF frameId # 0
     THEN UNCHANGED <<tabDurations, badgeText, persistTimeout, persistTimers,
                      pulls>>
     ELSE IF isYouTubeVideoUrl(url)
     THEN /\ Cardinality(pulls) < MaxPending
          /\ pulls' = pulls \cup {Pull(events + 1, t, 2, "timer", 0, FALSE)}
          /\ UNCHANGED <<tabDurations, badgeText, persistTimeout,
                         persistTimers>>
     ELSE IF MapHas(tabDurations, t)
     THEN /\ tabDurations' = MapDelete(tabDurations, t)
          /\ updateBadge(tabDurations', displayEnabled)
          /\ UNCHANGED pulls
     ELSE UNCHANGED <<tabDurations, badgeText, persistTimeout, persistTimers,
                      pulls>>
  /\ UNCHANGED <<boot, page>>
  /\ last' = Op("onHistoryStateUpdated", t,
                [url |-> url, frameId |-> frameId], FALSE)
  /\ UNCHANGED <<displayEnabled, storage>>

\* A push applied for tab t overtakes the requests awaiting t's answer
Overtaken(ps, t) ==
  {IF p.tabId = t /\ p.phase = "sent" THEN [p EXCEPT !.stale = TRUE] ELSE p :
     p \in ps}

\* onMessage('reportDuration'); sender is message.sender.tab?.id
ReportDuration(sender, data) ==
  /\ events < MaxEvents
  /\ events' = events + 1
  /\ IF sender = NoTab
     THEN UNCHANGED <<tabDurations, badgeText, persistTimeout, persistTimers,
                      pulls>>
     ELSE IF ~isYouTubeVideoUrl(data.url)
     THEN /\ tabDurations' = MapDelete(tabDurations, sender)
          /\ updateBadge(tabDurations', displayEnabled)
          /\ UNCHANGED pulls
     ELSE /\ tabDurations' = MapSet(tabDurations, sender,
                                    TabDurationInfo(sender, data))
          /\ updateBadge(tabDurations', displayEnabled)
          /\ pulls' = Overtaken(pulls, sender)
  /\ UNCHANGED <<boot, page>>
  /\ last' = Op("reportDuration", sender, data, FALSE)
  /\ UNCHANGED <<displayEnabled, storage>>

\* The AggregateSnapshot getPopupData returns
PopupData ==
  [tabs |-> tabDurations,
   totalDurationSeconds |-> calculateTotalRemaining(tabDurations),
   totalFormatted |-> formatDuration(calculateTotalRemaining(tabDurations)),
   displayEnabled |-> displayEnabled]

\* A getPopupData that drops the records that are still loading
GetPopupDataDropsLoading ==
  /\ events < MaxEvents
  /\ events' = events + 1
  /\ LET Resolved(info) == ~info.isLoading
     IN tabDurations' = SelectSeq(tabDurations, Resolved)
  /\ UNCHANGED <<boot, page>>
  /\ last' = Op("getPopupData", NoTab, NoData, PopupData)
  /\ UNCHANGED <<displayEnabled, persistTimeout, persistTimers, storage,
                 badgeText, pulls>>

\* onMessage('getPopupData')
GetPopupData ==
  /\ events < MaxEvents
  /\ events' = events + 1
  /\ UNCHANGED <<boot, page>>
  /\ last' = Op("getPopupData", NoTab, NoData, PopupData)
  /\ UNCHANGED <<tabDurations, displayEnabled, persistTimeout, persistTimers,
                 storage, badgeText, pulls>>

\* A toggle that leaves the write of the preference to the throttle
ToggleDisplayNoWrite ==
  /\ events < MaxEvents
  /\ events' = events + 1
  /\ displayEnabled' = ~displayEnabled
  /\ updateBadge(tabDurations, displayEnabled')
  /\ UNCHANGED <<boot, page>>
  /\ last' = Op("toggleDisplay", NoTab, NoData, displayEnabled')
  /\ UNCHANGED <<tabDurations, pulls, storage>>

\* onMessage('toggleDisplay')
ToggleDisplay ==
  /\ events < MaxEvents
  /\ events' = events + 1
  /\ displayEnabled' = ~displayEnabled
  /\ storage' = [storage EXCEPT !.displayEnabled = Bool(displayEnabled')]
  /\ updateBadge(tabDurations, displayEnabled')
  /\ UNCHANGED <<boot, page>>
  /\ last' = Op("toggleDisplay", NoTab, NoData, displayEnabled')
  /\ UNCHANGED <<tabDurations, pulls>>

Next ==
  \/ \E t \in TabIds : OnRemoved(t)
  \/ Restore
  \/ \E t \in TabIds, in \in UpdatedInputs : OnUpdated(t, in[1], in[2])
  \/ \E t \in TabIds, in \in HistoryInputs :
        OnHistoryStateUpdated(t, in[1], in[2])
  \/ \E p \in pulls : PullSend(p)
  \/ \E p \in pulls, response \in Payloads : PullResponse(p, response)
  \/ \E p \in pulls : PullFail(p)
  \/ \E r \in Reports : ReportDuration(r[1], r[2])
  \/ GetPopupData
  \/ ToggleDisplay
  \/ PersistFire

Spec == Init /\ [][Next]_vars

----------------------------------------------------------------------------
(* Startup after the restore: injectContentScripts, then the bulk scan *)

\* A tab as browser.tabs.query returns it; id is NoTab when tab.id is not set
Tab(id, discarded) == [id |-> id, discarded |-> discarded]

\* Results of the scan's browser.tabs.query (tabs open at a watch or shorts
\* page)
QueryResults ==
  {<<>>,
   <<Tab(1, FALSE)>>,
   <<Tab(1, TRUE), Tab(2, FALSE)>>,
   <<Tab(1, FALSE), Tab(2, FALSE)>>,
   <<Tab(NoTab, FALSE), Tab(2, TRUE)>>}

\* A tab that was closed while the coordinator was not running
ClosedTab == 3

\* A stored entry that has a tabId and an isLoading flag and lacks its url,
\* title, duration and position (a missing string reads as "", a missing
\* number as undefined)
PartialEntry(t) ==
  [tabId |-> t, url |-> "", title |-> "", durationSeconds |-> Undefined,
   currentTimeSeconds |-> Undefined, playbackRate |-> Undefined,
   isLoading |-> FALSE, videoType |-> "video"]

\* A stored entry without a tabId
NoIdEntry == [url |-> WatchUrl, title |-> "Video"]

\* What storage may hold at startup: the records of an open tab and of a tab
\* closed since, with no stored preference; values of the wrong type; a list
\* with a null entry, an entry without tabId and an entry that lacks fields
BootStoredStates ==
  {[displayEnabled |-> Absent,
    tabDurationsCache |->
      Array(<<TabDurationInfo(1, DurationResponse(WatchUrl, 1800, 600,
                                                  Undefined, FALSE, FALSE)),
              TabDurationInfo(ClosedTab,
                              DurationResponse(WatchUrl, 1800, 600,
                                               Undefined, FALSE, FALSE))>>)],
   [displayEnabled |-> [k |-> "string", v |-> "false"],
    tabDurationsCache |-> [k |-> "object", v |-> <<>>]],
   [displayEnabled |-> Bool(FALSE),
    tabDurationsCache |-> Array(<<Null, NoIdEntry, PartialEntry(2)>>)]}

InitBoot ==
  /\ tabDurations = <<>>
  /\ displayEnabled = TRUE
  /\ persistTimeout = FALSE
  /\ persistTimers = 0
  /\ storage \in BootStoredStates
  /\ badgeText = ""
  /\ pulls = {}
  /\ boot = "restore"
  /\ page = NoPage
  /\ last = Op("init", NoTab, NoData, FALSE)
  /\ events = 0

\* await injectContentScripts(): the tabs of the site are queried and each is
\* sent getDuration (and the script is injected where that fails); nothing
\* of the coordinator's state is read or written
InjectContentScripts ==
  /\ boot = "inject"
  /\ boot' = "query"
  /\ last' = Op("inject", NoTab, NoData, FALSE)
  /\ UNCHANGED <<tabDurations, displayEnabled, persistTimeout, persistTimers,
                 storage, badgeText, pulls, page, events>>

\* The scan that also sends getDuration to the discarded tabs
ScanAllTabsPullsDiscarded(tabs) ==
  /\ boot = "query"
  /\ LET activeTabIds == {tabs[i].id : i \in DOMAIN tabs} \ {NoTab}
         Keep(r) == r.tabId \in activeTabIds
     IN /\ tabDurations' = SelectSeq(tabDurations, Keep)
        /\ pulls' = pulls \cup {Pull(ScanChain(t), t, 2, "sent", 1, FALSE) :
                                  t \in activeTabIds}
        /\ IF activeTabIds = {}
           THEN /\ boot' = "done"
                /\ updateBadge(tabDurations', displayEnabled)
           ELSE /\ boot' = "scan"
                /\ UNCHANGED <<badgeText, persistTimeout, persistTimers>>
  /\ last' = Op("scan", NoTab, [url |-> "", tabs |-> tabs], FALSE)
  /\ UNCHANGED <<displayEnabled, storage, page, events>>

\* scanAllYouTubeTabs resumes with the result of browser.tabs.query: it
\* deletes the records of the tabs that are not in the result, sends
\* getDuration to the tabs that are not discarded and awaits the answers;
\* with nothing to await it repaints in the same turn
scanAllYouTubeTabs(tabs) ==
  /\ boot = "query"
  /\ LET activeTabIds == {tabs[i].id : i \in DOMAIN tabs} \ {NoTab}
         Keep(r) == r.tabId \in activeTabIds
         targets == {tabs[i].id :
                       i \in {j \in DOMAIN tabs :
                                tabs[j].id # NoTab /\ ~tabs[j].discarded}}
     IN /\ tabDurations' = SelectSeq(tabDurations, Keep)
        /\ pulls' = pulls \cup {Pull(ScanChain(t), t, 2, "sent", 1, FALSE) :
                                  t \in targets}
        /\ IF targets = {}
           THEN /\ boot' = "done"
                /\ updateBadge(tabDurations', displayEnabled)
           ELSE /\ boot' = "scan"
                /\ UNCHANGED <<badgeText, persistTimeout, persistTimers>>
  /\ last' = Op("scan", NoTab, [url |-> "", tabs |-> tabs], FALSE)
  /\ UNCHANGED <<displayEnabled, storage, page, events>>

\* Startup, the pulls it sends, and the events that change a record
NextBoot ==
  \/ Restore
  \/ InjectContentScripts
  \/ \E tabs \in QueryResults : scanAllYouTubeTabs(tabs)
  \/ \E p \in pulls : PullSend(p)
  \/ \E p \in pulls, response \in Payloads : PullResponse(p, response)
  \/ \E p \in pulls : PullFail(p)
  \/ \E t \in TabIds : OnRemoved(t)
  \/ \E r \in Reports : ReportDuration(r[1], r[2])
  \/ PersistFire

SpecBoot == InitBoot /\ [][NextBoot]_vars

----------------------------------------------------------------------------
(* Every handler of the coordinator together with the startup sequence, on  *)
(* few inputs: a video partly watched, a short of less than a minute and a     *)
(* page still loading.                                                      *)

HandlerPayloads ==
  {DurationResponse(WatchUrl, 1800, 600, Undefined, FALSE, FALSE),
   DurationResponse(ShortsUrl, 30, 0, Num(1), FALSE, FALSE),
   DurationResponse(WatchUrl, 0, 0, Undefined, TRUE, FALSE)}

NextHandlers ==
  \/ Restore
  \/ InjectContentScripts
  \/ \E tabs \in {<<Tab(1, FALSE)>>, <<Tab(1, TRUE)>>,
                   <<Tab(1, TRUE), Tab(2, FALSE)>>} :
        scanAllYouTubeTabs(tabs)
  \/ \E p \in pulls : PullSend(p)
  \/ \E p \in pulls, response \in HandlerPayloads : PullResponse(p, response)
  \/ \E p \in pulls : PullFail(p)
  \/ \E t \in TabIds : OnRemoved(t)
  \/ \E t \in TabIds, url \in {WatchUrl, FeedUrl} :
        OnUpdated(t, "complete", url)
  \/ \E t \in TabIds, url \in {WatchUrl, FeedUrl} :
        OnHistoryStateUpdated(t, 0, url)
  \/ \E t \in TabIds, data \in HandlerPayloads : ReportDuration(t, data)
  \/ GetPopupData
  \/ ToggleDisplay
  \/ PersistFire

SpecHandlers == Init /\ [][NextHandlers]_vars

\* The startup sequence runs on, a message sent to a tab is answered or
\* rejected, and a timer that is due fires
SpecHandlersFair ==
  /\ SpecHandlers
  /\ WF_vars(Restore)
  /\ WF_vars(InjectContentScripts)
  /\ WF_vars(\E tabs \in {<<Tab(1, FALSE)>>, <<Tab(1, TRUE)>>,
                           <<Tab(1, TRUE), Tab(2, FALSE)>>} :
                scanAllYouTubeTabs(tabs))
  /\ WF_vars(\E p \in pulls : PullSend(p))
  /\ WF_vars(\E p \in pulls :
                \/ PullFail(p)
                \/ \E response \in HandlerPayloads : PullResponse(p, response))
  /\ WF_vars(PersistFire)

----------------------------------------------------------------------------
(* The aggregate as a function of the mapping: the coordinator right after  *)
(* it rehydrated an arbitrary stored list, answering getPopupData.          *)

\* Largest duration and position, in seconds, of the rehydrated records
MaxSeconds == 2

CalcRecords(t) ==
  [tabId : {t},
   url : {WatchUrl},
   title : {"Video"},
   durationSeconds : {Num(n) : n \in 0..MaxSeconds} \cup {Infinity},
   currentTimeSeconds : {Num(n) : n \in 0..MaxSeconds},
   playbackRate : {Num(r) : r \in Rates} \cup {Undefined},
   isLoading : BOOLEAN,
   videoType : {"video"}]

CalcMappings ==
  {<<r1>> : r1 \in CalcRecords(1)}
  \cup {<<r1, r2>> : r1 \in CalcRecords(1), r2 \in CalcRecords(2)}

InitCalc ==
  /\ tabDurations \in CalcMappings
  /\ displayEnabled = TRUE
  /\ persistTimeout = TRUE
  /\ persistTimers = 1
  /\ storage = [displayEnabled |-> Absent,
                tabDurationsCache |-> Array(tabDurations)]
  /\ badgeText = BadgeText(tabDurations, displayEnabled)
  /\ pulls = {}
  /\ boot = "inject"
  /\ page = NoPage
  /\ last = Op("restore", NoTab, NoData, FALSE)
  /\ events = 0

NextCalc ==
  \/ GetPopupData
  \/ ToggleDisplay
  \/ PersistFire

SpecCalc == InitCalc /\ [][NextCalc]_vars

\* The aggregate as the specification words it: over the records that are
\* not loading, max(0, duration - position) / rate with a missing or zero
\* rate taken as 1, a non-finite or negative term being skipped (in ticks)
JsMaxZero(x) ==
  IF x.k \in {"nan", "undefined"} THEN NaN
  ELSE IF x.k = "inf" THEN (IF x.v > 0 THEN x ELSE Num(0))
  ELSE IF x.v > 0 THEN x ELSE Num(0)

StatedTerm(info) ==
  LET rate == IF info.playbackRate.k = "undefined"
                 \/ (info.playbackRate.k = "num" /\ info.playbackRate.v = 0)
              THEN Num(1) ELSE info.playbackRate
      term == JsDivTicks(JsMaxZero(JsSub(info.durationSeconds,
                                         info.currentTimeSeconds)), rate)
  IN IF info.isLoading \/ ~IsFinite(term) \/ term.v < 0 THEN 0 ELSE term.v

RECURSIVE StatedAggregate(_)
StatedAggregate(m) ==
  IF m = <<>> THEN 0 ELSE StatedTerm(Head(m)) + StatedAggregate(Tail(m))

\* C1: for every content of the record mapping, the total getPopupData
\* returns (calculateTotalRemaining) is the stated sum over the records that
\* are not loading.
C1_AggregateIsStatedSum ==
  last.op = "getPopupData" =>
    last.ret.totalDurationSeconds = StatedAggregate(tabDurations)

----------------------------------------------------------------------------
(* Properties of the coordinator *)

\* The record held for tab t, as a sequence of at most one record
RecordOf(m, t) == IF MapHas(m, t) THEN <<MapGet(m, t)>> ELSE <<>>

\* The tracked pattern as the specification words it: a watch page or a
\* shorts page of the site
IsTrackedPage(url) ==
  \/ HasPrefix(url, "https://www.youtube.com/watch")
  \/ HasPrefix(url, "https://www.youtube.com/shorts/")

\* The step just taken applied a push or a pull response to a tab
AppliedReport(op) ==
  /\ op.tabId # NoTab
  /\ \/ op.op = "pullResponse"
     \/ op.op = "reportDuration" /\ IsTrackedPage(op.data.url)

\* C2: a tab whose extractor reports isLiveStream = TRUE, by push or by pull
\* response, contributes nothing to the aggregate on the badge and in the
\* popup data.
C2_LiveExcluded ==
  (AppliedReport(last) /\ last.data.isLiveStream) =>
    /\ PopupData.totalDurationSeconds =
         calculateTotalRemaining(MapDelete(tabDurations, last.tabId))
    /\ badgeText = BadgeText(MapDelete(tabDurations, last.tabId),
                             displayEnabled)

\* C3: a loading record contributes nothing to the aggregate, in every
\* state; and a report that is not loading (nor live), with position <=
\* duration and rate 1 or missing, applied to a tab whose record is loading,
\* raises the aggregate by exactly duration - position.
C3_LoadingExcludedThenIncluded ==
  /\ [](\A i \in DOMAIN tabDurations :
          tabDurations[i].isLoading =>
            calculateTotalRemaining(tabDurations) =
              calculateTotalRemaining(
                MapDelete(tabDurations, tabDurations[i].tabId)))
  /\ [][(/\ AppliedReport(last')
         /\ last'.before.record = "loading"
         /\ ~last'.data.isLoading
         /\ ~last'.data.isLiveStream
         /\ last'.data.playbackRate \in {Undefined, Num(1)}
         /\ last'.data.currentTimeSeconds.v <= last'.data.durationSeconds.v)
        => calculateTotalRemaining(tabDurations') =
             calculateTotalRemaining(tabDurations)
             + (last'.data.durationSeconds.v
                - last'.data.currentTimeSeconds.v) * TicksPerSecond]_vars

C3_Witness ==
  /\ last.op = "reportDuration"
  /\ AppliedReport(last)
  /\ last.before.record = "loading"
  /\ ~last.data.isLoading
  /\ ~last.data.isLiveStream
  /\ Len(tabDurations) = 2
  /\ calculateTotalRemaining(tabDurations) > 0

\* C4: a tab-removed event for tab t leaves no entry for t, whatever the
\* record's state, leaves the records of the other tabs as they were, and
\* repaints the badge from the reduced mapping in the same step.
C4_RemovalDeletesAndRepaints ==
  [][last'.op = "onRemoved" =>
       /\ ~MapHas(tabDurations', last'.tabId)
       /\ tabDurations' = MapDelete(tabDurations, last'.tabId)
       /\ last'.before.record # "none" =>
            badgeText' = BadgeText(MapDelete(tabDurations, last'.tabId),
                                   displayEnabled)]_vars

C4_Witness ==
  /\ last.op = "onRemoved"
  /\ last.before.record = "loading"
  /\ ~MapHas(tabDurations, last.tabId)
  /\ tabDurations # <<>>

\* C5: a push from tab t whose URL is not a tracked page leaves no record
\* for t, whether or not one existed, and repaints from the reduced mapping.
C5_UntrackedPushDeletes ==
  [][(last'.op = "reportDuration" /\ last'.tabId # NoTab
      /\ ~IsTrackedPage(last'.data.url)) =>
       /\ ~MapHas(tabDurations', last'.tabId)
       /\ tabDurations' = MapDelete(tabDurations, last'.tabId)
       /\ badgeText' = BadgeText(MapDelete(tabDurations, last'.tabId),
                                 displayEnabled)]_vars

C5_Witness ==
  /\ last.op = "reportDuration"
  /\ last.tabId # NoTab
  /\ ~IsTrackedPage(last.data.url)
  /\ last.before.record = "ready"
  /\ ~MapHas(tabDurations, last.tabId)

\* C6: last applied wins per tab.  A push or a pull response applied for t
\* makes t's record its payload, whatever was applied before (so a retry
\* response that resolves after a newer push overwrites it), and leaves the
\* record of every other tab as it was; between such steps t's record
\* changes only by a deletion for t or by the startup restore.
C6_LastAppliedWins ==
  [][\A t \in TabIds :
       LET old == RecordOf(tabDurations, t)
           new == RecordOf(tabDurations', t)
       IN /\ (AppliedReport(last') /\ last'.tabId = t) =>
               new = <<TabDurationInfo(t, last'.data)>>
          /\ (AppliedReport(last') /\ last'.tabId # t) => new = old
          /\ new # old =>
               \/ last'.op = "restore"
               \/ AppliedReport(last') /\ last'.tabId = t
               \/ /\ last'.tabId = t
                  /\ last'.op \in {"onRemoved", "onUpdated",
                                   "onHistoryStateUpdated", "reportDuration"}
                  /\ new = <<>>]_vars

C6_Witness ==
  /\ last.op = "pullResponse"
  /\ last.ret.stale
  /\ last.before.record = "ready"
  /\ last.data.isLoading
  /\ RecordOf(tabDurations, last.tabId)
       = <<TabDurationInfo(last.tabId, last.data)>>
  /\ Len(tabDurations) = 2

C8_PersistThrottled ==
  /\ [](persistTimers <= 1 /\ (persistTimeout <=> persistTimers = 1))
  /\ [][IF last'.op = "persist"
        THEN /\ persistTimers = 1
             /\ persistTimers' = 0
             /\ storage'.tabDurationsCache = Array(tabDurations)
        ELSE /\ storage'.tabDurationsCache = storage.tabDurationsCache
             /\ persistTimers = 1 => persistTimers' = 1]_vars

C8_Witness ==
  /\ last.op \in {"reportDuration", "pullResponse", "onRemoved"}
  /\ last.before.pending
  /\ persistTimers = 1
  /\ storage.tabDurationsCache # Array(tabDurations)

\* C9: toggleDisplay flips the preference, writes it to storage in the same
\* step, returns it and repaints; while the preference is false the badge is
\* empty, and getPopupData returns the aggregate of the current mapping
\* whatever the preference.
C9_ToggleAndHiddenBadge ==
  /\ [](~displayEnabled => badgeText = "")
  /\ [](last.op = "getPopupData" =>
          /\ last.ret.totalDurationSeconds =
               calculateTotalRemaining(tabDurations)
          /\ last.ret.totalFormatted =
               formatDuration(calculateTotalRemaining(tabDurations))
          /\ last.ret.tabs = tabDurations
          /\ last.ret.displayEnabled = displayEnabled)
  /\ [][last'.op = "toggleDisplay" =>
          /\ displayEnabled' = ~displayEnabled
          /\ storage'.displayEnabled = Bool(~displayEnabled)
          /\ storage'.tabDurationsCache = storage.tabDurationsCache
          /\ last'.ret = ~displayEnabled
          /\ badgeText' = BadgeText(tabDurations, ~displayEnabled)
          /\ tabDurations' = tabDurations]_vars

C9_Witness ==
  /\ last.op = "toggleDisplay"
  /\ ~displayEnabled
  /\ badgeText = ""
  /\ PopupData.totalDurationSeconds > 0
  /\ storage.displayEnabled = Bool(FALSE)

\* The pending pull without its history flags
PullCore(p) == [p EXCEPT !.stale = FALSE, !.orphan = FALSE]

\* C10: one navigation trigger causes at most 3 pulls.  A chain starts with
\* retries = 2 and no message sent; a retry is scheduled only by a response
\* that reports isLoading and finds retries > 0, with one retry less; every
\* response overwrites the record; and the chain is over after the response
\* that is not loading or that finds retries = 0, the record then being the
\* one that response carried (loading if the page never resolved).
C10_RetriesBounded ==
  /\ [](\A p \in pulls :
          /\ p.retries \in 0..2
          /\ p.sent = (IF p.phase = "timer" THEN 2 ELSE 3) - p.retries
          /\ \A q \in pulls : q.chain = p.chain => q = p)
  /\ [][\A q \in pulls' :
          PullCore(q) \notin {PullCore(p) : p \in pulls} =>
            \/ /\ last'.op \in {"onUpdated", "onHistoryStateUpdated"}
               /\ q = Pull(events', last'.tabId, 2, "timer", 0, FALSE)
            \/ /\ last'.op = "getDuration"
               /\ \E p \in pulls :
                    /\ p.phase = "timer"
                    /\ q = Pull(p.chain, p.tabId, p.retries, "sent",
                                p.sent + 1, FALSE)
            \/ /\ last'.op = "pullResponse"
               /\ last'.data.isLoading
               /\ last'.ret.retries > 0
               /\ q = Pull(last'.ret.chain, last'.ret.tabId,
                           last'.ret.retries - 1, "timer", last'.ret.sent,
                           FALSE)]_vars
  /\ [][last'.op = "pullResponse" =>
          /\ RecordOf(tabDurations', last'.tabId)
               = <<TabDurationInfo(last'.tabId, last'.data)>>
          /\ (~last'.data.isLoading \/ last'.ret.retries = 0) =>
               \A q \in pulls' : q.chain # last'.ret.chain]_vars

C10_Witness ==
  /\ last.op = "pullResponse"
  /\ last.ret.sent = 3
  /\ last.data.isLoading
  /\ \A q \in pulls : q.chain # last.ret.chain
  /\ MapGet(tabDurations, last.tabId).isLoading

\* The step just taken handled a navigation of a tab to a page that is not
\* tracked: tabs.onUpdated with status complete and the tab's URL, or a
\* history-state update of the main frame
LeftTrackedPage(op) ==
  \/ /\ op.op = "onUpdated"
     /\ op.data.status = "complete"
     /\ op.data.url # ""
     /\ ~IsTrackedPage(op.data.url)
  \/ /\ op.op = "onHistoryStateUpdated"
     /\ op.data.frameId = 0
     /\ ~IsTrackedPage(op.data.url)

\* C11: a navigation of tab t that completes at a non-tracked URL, or a
\* main-frame history-state update with a non-tracked URL, deletes t's record
\* if there is one, repaints the badge from the reduced mapping and touches
\* no other record, no pull and not the preference; a history-state update
\* of a sub-frame changes nothing.
C11_NavigatedAwayDeletes ==
  /\ [][LeftTrackedPage(last') =>
          /\ ~MapHas(tabDurations', last'.tabId)
          /\ tabDurations' = MapDelete(tabDurations, last'.tabId)
          /\ last'.before.record # "none" =>
               badgeText' = BadgeText(MapDelete(tabDurations, last'.tabId),
                                      displayEnabled)
          /\ UNCHANGED <<pulls, displayEnabled>>]_vars
  /\ [][(last'.op = "onHistoryStateUpdated" /\ last'.data.frameId # 0) =>
          UNCHANGED <<tabDurations, displayEnabled, badgeText, storage,
                      persistTimeout, persistTimers, pulls>>]_vars

C11_Witness ==
  /\ LeftTrackedPage(last)
  /\ last.op = "onHistoryStateUpdated"
  /\ last.before.record = "ready"
  /\ ~MapHas(tabDurations, last.tabId)
  /\ tabDurations # <<>>
  /\ badgeText = BadgeText(tabDurations, displayEnabled)

----------------------------------------------------------------------------
(* Properties of the startup sequence *)

\* The tabs of a query result that have an id, and those that are discarded
OpenIds(tabs) == {tabs[i].id : i \in DOMAIN tabs} \ {NoTab}
DiscardedIds(tabs) ==
  {tabs[i].id : i \in {j \in DOMAIN tabs : tabs[j].discarded}} \ {NoTab}

\* C12: the bulk scan removes exactly the records whose tab is not among the
\* open tracked tabs and leaves the other records as they were (so a
\* discarded open tab keeps its cached record), sends one getDuration to
\* every open tab that is not discarded and none to any other tab.
C12_ScanReconciles ==
  [][last'.op = "scan" =>
       LET open == OpenIds(last'.data.tabs)
           discarded == DiscardedIds(last'.data.tabs)
           issued == pulls' \ pulls
       IN /\ MapKeys(tabDurations') = MapKeys(tabDurations) \cap open
          /\ \A t \in open :
               RecordOf(tabDurations', t) = RecordOf(tabDurations, t)
          /\ pulls \subseteq pulls'
          /\ \A t \in open \ discarded :
               Cardinality({q \in issued : q.tabId = t}) = 1
          /\ \A q \in issued :
               /\ q.tabId \in open \ discarded
               /\ q.phase = "sent"
               /\ q.sent = 1]_vars

C12_Witness ==
  /\ last.op = "scan"
  /\ last.data.tabs = <<Tab(1, TRUE), Tab(2, FALSE)>>
  /\ MapHas(tabDurations, 1)
  /\ ~MapHas(tabDurations, ClosedTab)
  /\ \E i \in DOMAIN storage.tabDurationsCache.v :
       storage.tabDurationsCache.v[i] # Null
       /\ "tabId" \in DOMAIN storage.tabDurationsCache.v[i]
       /\ storage.tabDurationsCache.v[i].tabId = ClosedTab
  /\ {p.tabId : p \in pulls} = {2}

\* A record that has the fields of TabDurationInfo
HasRequiredFields(info) ==
  /\ info.url # ""
  /\ info.title # ""
  /\ info.durationSeconds.k # "undefined"
  /\ info.currentTimeSeconds.k # "undefined"

\* C13: the restore never fails.  A stored list that is not an array adds
\* nothing to the mapping, an entry that is malformed or lacks a required
\* field is not loaded, a stored preference that is not a boolean leaves the
\* preference true, and the restore repaints and goes on to the injection.
C13_RehydrationIgnoresMalformed ==
  [][last'.op = "restore" =>
       /\ storage.tabDurationsCache.k # "array" => tabDurations' = tabDurations
       /\ \A i \in DOMAIN tabDurations' :
            (RecordOf(tabDurations, tabDurations'[i].tabId)
               # <<tabDurations'[i]>>) => HasRequiredFields(tabDurations'[i])
       /\ storage.displayEnabled.k # "bool" => displayEnabled' = TRUE
       /\ badgeText' = BadgeText(tabDurations', displayEnabled')
       /\ boot' = "inject"]_vars

\* C14: in every state between two turns of the coordinator the badge text
\* last painted is the text derived from the record mapping and the
\* preference.
C14_BadgeIsDerived ==
  badgeText = BadgeText(tabDurations, displayEnabled)

----------------------------------------------------------------------------
(* Pulls against removals and navigations *)

\* C15: when tab t is removed while a getDuration sent to t awaits its
\* answer, the answer that arrives afterwards is dropped: it leaves no
\* record for t in the mapping.
C15_ResponseAfterRemovalDropped ==
  (last.op = "pullResponse" /\ last.ret.orphan) =>
    ~MapHas(tabDurations, last.tabId)

\* C16: in every reachable state every record of the mapping has the URL of
\* a tracked page (a watch page or a shorts page).
C16_RecordsAreTracked ==
  \A i \in DOMAIN tabDurations : IsTrackedPage(tabDurations[i].url)

----------------------------------------------------------------------------
(* The extractor: the content script of one page (unnamed/part_001)        *)
(*                                                                         *)
(* page holds what the script reads from the page (location.href, the      *)
(* element getMainVideo returns, the three sources of page data) and the   *)
(* script's own state; out and started are history: the reportDuration     *)
(* messages sent, and whether startPeriodicReporting was called, in the    *)
(* last step.                                                              *)

Str(s) == [k |-> "str", v |-> s]

\* if (x): undefined, null, "", 0 and NaN are falsy
Truthy(x) ==
  /\ x.k \notin {"undefined", "null", "nan"}
  /\ x.k = "str" => x.v # ""
  /\ x.k = "num" => x.v # 0

Digits == {"0", "1", "2", "3", "4", "5", "6", "7", "8", "9"}
IsDigits(s) == Len(s) > 0 /\ \A i \in 1..Len(s) : SubSeq(s, i, i) \in Digits
DigitValue(ch) == CHOOSE d \in 0..9 : ToString(d) = ch

RECURSIVE ParseDigits(_)
ParseDigits(s) ==
  IF Len(s) = 0 THEN 0
  ELSE ParseDigits(SubSeq(s, 1, Len(s) - 1)) * 10
       + DigitValue(SubSeq(s, Len(s), Len(s)))

\* Number(x) for a number, for undefined and for the strings of the model:
\* "", a string of digits, "Infinity", and text that is no number
ToNumber(x) ==
  IF x.k \in {"num", "inf", "nan"} THEN x
  ELSE IF x.k = "null" THEN Num(0)
  ELSE IF x.k = "str"
  THEN (IF x.v = "" THEN Num(0)
        ELSE IF IsDigits(x.v) THEN Num(ParseDigits(x.v))
        ELSE IF x.v = "Infinity" THEN Infinity
        ELSE NaN)
  ELSE NaN

\* Number.isFinite(x) && x > 0
IsPositive(x) == IsFinite(x) /\ x.v > 0

\* A media element with its duration and position
Video(duration, currentTime) ==
  [duration |-> duration, currentTime |-> currentTime]

\* videoDetails of a source of page data; lengthSeconds is undefined when
\* the source or one of the objects on the way to it is missing
VideoDetails(lengthSeconds, isLive) ==
  [lengthSeconds |-> lengthSeconds, isLive |-> isLive]

\* A script element: whether its text contains "lengthSeconds", and the
\* digits the pattern "lengthSeconds"\s*:\s*"(\d+)" captures in it ("" when
\* the pattern does not match)
Script(mentions, capture) == [mentions |-> mentions, capture |-> capture]

\* The first script that mentions lengthSeconds, matches and gives a finite
\* positive number
RECURSIVE ScanScripts(_)
ScanScripts(scripts) ==
  IF scripts = <<>> THEN Null
  ELSE LET script == Head(scripts)
           parsed == ToNumber(Str(script.capture))
       IN IF script.mentions /\ script.capture # "" /\ IsPositive(parsed)
          THEN parsed
          ELSE ScanScripts(Tail(scripts))

\* One of the first two methods of getPageDataDuration
FromVideoDetails(details) ==
  IF Truthy(details.lengthSeconds)
     /\ IsPositive(ToNumber(details.lengthSeconds))
  THEN ToNumber(details.lengthSeconds)
  ELSE Null

getPageDataDuration(s) ==
  IF FromVideoDetails(s.flexy) # Null THEN FromVideoDetails(s.flexy)
  ELSE IF FromVideoDetails(s.initial) # Null THEN FromVideoDetails(s.initial)
  ELSE ScanScripts(s.scripts)

isLiveStream(s) ==
  \/ s.flexy.isLive
  \/ s.initial.isLive
  \/ s.video # Null /\ s.video.duration = Infinity

\* The result of extractDuration with the duration, position and loading
\* flag it found (it sets no playbackRate)
Extracted(s, duration, currentTime, loading) ==
  [url |-> s.href,
   title |-> "Video",
   durationSeconds |-> duration,
   currentTimeSeconds |-> currentTime,
   playbackRate |-> Undefined,
   isLoading |-> loading,
   isLiveStream |-> isLiveStream(s),
   videoType |-> IF Includes(s.href, "/shorts/") THEN "short" ELSE "video"]

\* extractDuration that asks the page data before the media element
extractDurationPageFirst(s) ==
  LET currentTime == IF s.video # Null THEN s.video.currentTime ELSE Num(0)
      pageDataDuration == getPageDataDuration(s)
  IN IF pageDataDuration # Null
     THEN Extracted(s, pageDataDuration, currentTime, FALSE)
     ELSE IF s.video # Null /\ IsPositive(s.video.duration)
     THEN Extracted(s, s.video.duration, currentTime, FALSE)
     ELSE Extracted(s, Num(0), Num(0), TRUE)

extractDuration(s) ==
  LET currentTime == IF s.video # Null THEN s.video.currentTime ELSE Num(0)
      pageDataDuration == getPageDataDuration(s)
  IN IF s.video # Null /\ IsPositive(s.video.duration)
     THEN Extracted(s, s.video.duration, currentTime, FALSE)
     ELSE IF pageDataDuration # Null
     THEN Extracted(s, pageDataDuration, currentTime, FALSE)
     ELSE Extracted(s, Num(0), Num(0), TRUE)

\* sendMessage("reportDuration", data)
Push(s, data) == [s EXCEPT !.out = Append(@, data)]

stopPeriodicReporting(s) ==
  IF s.reportInterval
  THEN [s EXCEPT !.reportInterval = FALSE, !.intervals = @ - 1]
  ELSE s

\* startPeriodicReporting without its call of stopPeriodicReporting
startPeriodicReportingNoStop(s) ==
  [s EXCEPT !.reportInterval = TRUE, !.intervals = @ + 1, !.started = TRUE]

startPeriodicReporting(s) ==
  [stopPeriodicReporting(s) EXCEPT !.reportInterval = TRUE,
                                   !.intervals = @ + 1,
                                   !.started = TRUE]

reportCurrentDuration(s) ==
  LET data == extractDuration(s)
  IN IF ~data.isLoading THEN startPeriodicReporting(Push(s, data)) ELSE s

setupVideoListeners(s) ==
  IF s.video = Null THEN s
  ELSE IF IsPositive(s.video.duration) THEN reportCurrentDuration(s)
  ELSE [s EXCEPT !.listeners = @ + 1]

observeForData(s) == [s EXCEPT !.domObserver = TRUE]

waitForVideoAndReport(s) ==
  IF getPageDataDuration(s) # Null
  THEN setupVideoListeners(reportCurrentDuration(s))
  ELSE IF s.video # Null /\ IsPositive(s.video.duration)
  THEN reportCurrentDuration(s)
  ELSE IF s.video # Null THEN setupVideoListeners(s)
  ELSE observeForData(s)

\* One onReady listener handling loadedmetadata or durationchange
onReady(s) ==
  IF IsPositive(s.video.duration)
  THEN reportCurrentDuration([s EXCEPT !.listeners = @ - 1])
  ELSE s

\* The event dispatched to the n listeners attached to the element
RECURSIVE Dispatch(_, _)
Dispatch(s, n) == IF n = 0 THEN s ELSE Dispatch(onReady(s), n - 1)

\* The body of the yt-navigate-finish and popstate listeners
onNavigate(s) ==
  IF s.href # s.currentUrl
  THEN [stopPeriodicReporting([s EXCEPT !.currentUrl = s.href])
          EXCEPT !.timers = @ + 1]
  ELSE s

\* The callback of the MutationObserver
onMutation(s) ==
  IF getPageDataDuration(s) # Null
  THEN setupVideoListeners(
         reportCurrentDuration([s EXCEPT !.domObserver = FALSE]))
  ELSE IF s.video # Null
  THEN waitForVideoAndReport([s EXCEPT !.domObserver = FALSE])
  ELSE s

\* The callback of setInterval, without its isLoading test
onIntervalAlways(s) ==
  LET s1 == IF s.href # s.currentUrl THEN [s EXCEPT !.currentUrl = s.href]
            ELSE s
  IN Push(s1, extractDuration(s1))

\* The callback of setInterval
onInterval(s) ==
  LET s1 == IF s.href # s.currentUrl THEN [s EXCEPT !.currentUrl = s.href]
            ELSE s
      data == extractDuration(s1)
  IN IF ~data.isLoading THEN Push(s1, data) ELSE s1

\* Navigations of the page one behaviour follows
MaxNavs == 2
\* onReady listeners that may be attached when another one is added
MaxListeners == 2

\* A page as the script finds it: the content, and the script's variables
\* before main() has run
Page(href, video, flexy, initial, scripts) ==
  [href |-> href, video |-> video, flexy |-> flexy, initial |-> initial,
   scripts |-> scripts,
   running |-> FALSE, currentUrl |-> href, domObserver |-> FALSE,
   reportInterval |-> FALSE, intervals |-> 0, listeners |-> 0, timers |-> 0,
   navs |-> 0, out |-> <<>>, started |-> FALSE]

NoDetails == VideoDetails(Undefined, FALSE)

\* Pages at document_idle: with or without the media element, with or
\* without the component's data
StartPages ==
  {Page(WatchUrl, video, VideoDetails(lengthSeconds, FALSE), NoDetails, <<>>) :
     video \in {Null, Video(NaN, Num(0))},
     lengthSeconds \in {Undefined, Str("1800")}}

\* The state a step starts from: nothing sent yet
Quiet(s) == [s EXCEPT !.out = <<>>, !.started = FALSE]

\* A step of the page: the coordinator is not part of it
ExtractorStep(op, s, ret) ==
  /\ page' = s
  /\ s.listeners <= MaxListeners
  /\ last' = Op(op, NoTab, NoData, ret)
  /\ UNCHANGED <<tabDurations, displayEnabled, persistTimeout, persistTimers,
                 storage, badgeText, pulls, boot, events>>

InitExtractor ==
  /\ tabDurations = <<>>
  /\ displayEnabled = TRUE
  /\ persistTimeout = FALSE
  /\ persistTimers = 0
  /\ storage = [displayEnabled |-> Absent, tabDurationsCache |-> Absent]
  /\ badgeText = ""
  /\ pulls = {}
  /\ boot = "done"
  /\ page \in StartPages
  /\ last = Op("init", NoTab, NoData, FALSE)
  /\ events = 0

\* main(): the listeners are registered and waitForVideoAndReport is called
Main ==
  /\ ~page.running
  /\ ExtractorStep("main",
                   waitForVideoAndReport([Quiet(page) EXCEPT !.running = TRUE]),
                   FALSE)

\* onMessage("getDuration")
OnGetDuration ==
  /\ page.running
  /\ ExtractorStep("onGetDuration", Quiet(page), extractDuration(page))

IntervalTick ==
  /\ page.intervals > 0
  /\ ExtractorStep("interval", onInterval(Quiet(page)), FALSE)

MutationObserved ==
  /\ page.domObserver
  /\ ExtractorStep("mutation", onMutation(Quiet(page)), FALSE)

\* The timer of 500 ms set by a navigation fires
GraceTimer ==
  /\ page.timers > 0
  /\ ExtractorStep("timer",
                   waitForVideoAndReport([Quiet(page) EXCEPT !.timers = @ - 1]),
                   FALSE)

\* The media element gets the duration d and dispatches loadedmetadata or
\* durationchange to its listeners
VideoEvent(d) ==
  /\ page.running
  /\ page.video # Null
  /\ page.video.duration # d
  /\ ExtractorStep("videoEvent",
                   Dispatch([Quiet(page) EXCEPT !.video.duration = d],
                            page.listeners),
                   FALSE)

\* The page inserts its media element, with no metadata yet
VideoInserted ==
  /\ page.running
  /\ page.video = Null
  /\ ExtractorStep("videoInserted",
                   [Quiet(page) EXCEPT !.video = Video(NaN, Num(0))], FALSE)

\* The component's data gets the length v
PageDataSet(v) ==
  /\ page.running
  /\ page.flexy.lengthSeconds # v
  /\ ExtractorStep("pageData",
                   [Quiet(page) EXCEPT !.flexy.lengthSeconds = v], FALSE)

\* The page moves to another URL without a reload
LocationChange(url) ==
  /\ page.running
  /\ page.navs < MaxNavs
  /\ page.href # url
  /\ ExtractorStep("location",
                   [Quiet(page) EXCEPT !.href = url, !.navs = @ + 1], FALSE)

\* document: yt-navigate-finish
NavigateFinish ==
  /\ page.running
  /\ page.navs > 0
  /\ ExtractorStep("yt-navigate-finish", onNavigate(Quiet(page)), FALSE)

\* window: popstate
Popstate ==
  /\ page.running
  /\ page.navs > 0
  /\ ExtractorStep("popstate", onNavigate(Quiet(page)), FALSE)

NextExtractor ==
  \/ Main
  \/ OnGetDuration
  \/ IntervalTick
  \/ MutationObserved
  \/ GraceTimer
  \/ \E d \in {NaN, Num(600)} : VideoEvent(d)
  \/ VideoInserted
  \/ \E v \in {Undefined, Str("1800")} : PageDataSet(v)
  \/ \E url \in {WatchUrl, FeedUrl} : LocationChange(url)
  \/ NavigateFinish
  \/ Popstate

SpecExtractor == InitExtractor /\ [][NextExtractor]_vars

\* The timers and the observer callback of the page run once they are due
SpecExtractorFair ==
  /\ SpecExtractor
  /\ WF_vars(Main)
  /\ WF_vars(IntervalTick)
  /\ WF_vars(MutationObserved)
  /\ WF_vars(GraceTimer)

----------------------------------------------------------------------------
(* extractDuration as a function of the page: a running script answering   *)
(* getDuration on an arbitrary page.                                       *)

PageVideos ==
  {Null, Video(NaN, Num(0)), Video(Num(0), Num(0)), Video(Num(600), Num(30)),
   Video(Infinity, Num(30))}

PageScripts ==
  {<<>>,
   <<Script(FALSE, "")>>,
   <<Script(TRUE, ""), Script(TRUE, "0"), Script(TRUE, "450")>>,
   <<Script(TRUE, "450"), Script(TRUE, "90")>>}

Pages ==
  {[Page(href, video, VideoDetails(l1, live), VideoDetails(l2, FALSE), scripts)
      EXCEPT !.running = TRUE] :
     href \in {WatchUrl, ShortsUrl},
     video \in PageVideos,
     l1 \in {Undefined, Num(0), Str("0"), Str("1800"), Str("auto")},
     live \in BOOLEAN,
     l2 \in {Undefined, Str(""), Str("900")},
     scripts \in PageScripts}

InitPages ==
  /\ tabDurations = <<>>
  /\ displayEnabled = TRUE
  /\ persistTimeout = FALSE
  /\ persistTimers = 0
  /\ storage = [displayEnabled |-> Absent, tabDurationsCache |-> Absent]
  /\ badgeText = ""
  /\ pulls = {}
  /\ boot = "done"
  /\ page \in Pages
  /\ last = Op("init", NoTab, NoData, FALSE)
  /\ events = 0

NextPages == OnGetDuration

SpecPages == InitPages /\ [][NextPages]_vars

----------------------------------------------------------------------------
(* Properties of the extractor *)

\* C17: no reportDuration message the page sends carries isLoading = TRUE,
\* whether it comes from the periodic timer or from a report, and
\* startPeriodicReporting is called only in a step that has just sent the
\* result of an extraction that was not loading.
C17_NeverPushesLoading ==
  /\ [](\A i \in DOMAIN page.out : ~page.out[i].isLoading)
  /\ [][page'.started =>
          /\ page'.out # <<>>
          /\ ~page'.out[Len(page'.out)].isLoading
          /\ page'.out[Len(page'.out)] = extractDuration(page')]_vars

C17_Witness ==
  /\ last.op = "interval"
  /\ page.reportInterval
  /\ extractDuration(page).isLoading
  /\ page.out = <<>>

\* C18: the listener of an in-page navigation to another URL leaves the page
\* with no periodic timer, no element listener and no DOM observer; and while
\* the 500 ms timer of a navigation is pending, no step other than that
\* timer's sends a push or starts periodic reporting.
C18_NavigationCancels ==
  /\ [][(last'.op \in {"yt-navigate-finish", "popstate"}
         /\ page.href # page.currentUrl) =>
          /\ ~page'.reportInterval
          /\ page'.intervals = 0
          /\ page'.listeners = 0
          /\ ~page'.domObserver]_vars
  /\ [][(page.timers > 0 /\ last'.op # "timer") =>
          /\ page'.out = <<>>
          /\ ~page'.started]_vars

\* What each source of a duration gives, in the order of preference: the
\* media element, the component's data, the initial-state global, the scan
\* of the inline scripts
DurationSources(s) ==
  <<IF s.video # Null THEN s.video.duration ELSE Null,
    ToNumber(s.flexy.lengthSeconds),
    ToNumber(s.initial.lengthSeconds),
    ScanScripts(s.scripts)>>

RECURSIVE FirstPositive(_)
FirstPositive(values) ==
  IF values = <<>> THEN Null
  ELSE IF IsPositive(Head(values)) THEN Head(values)
  ELSE FirstPositive(Tail(values))

\* C19: extractDuration returns a result for every page: the duration is the
\* first finite positive value among the media element, the component's
\* data, the initial-state global and the script scan; isLoading is true
\* exactly when there is none, and then duration and position are 0.
C19_ExtractDuration ==
  last.op = "onGetDuration" =>
    LET r == last.ret
        best == FirstPositive(DurationSources(page))
    IN /\ r.isLoading = (best = Null)
       /\ best # Null => r.durationSeconds = best
       /\ r.isLoading =>
            r.durationSeconds = Num(0) /\ r.currentTimeSeconds = Num(0)
       /\ r.url = page.href

C19_Witness ==
  /\ last.op = "onGetDuration"
  /\ page.video # Null
  /\ IsPositive(page.video.duration)
  /\ page.flexy.lengthSeconds = Str("1800")
  /\ last.ret.durationSeconds = Num(600)
  /\ ~last.ret.isLoading

\* A positive duration is available from some source of the page
Available(s) == FirstPositive(DurationSources(s)) # Null

\* C20: when the script is running and not reporting (NoData,
\* WaitingOnElement or Observing) and a positive duration is available, then,
\* unless the page navigates or the duration goes away, the script comes to
\* report periodically (Ready).
C20_EventuallyReady ==
  \A n \in 0..MaxNavs :
    (page.running /\ ~page.reportInterval /\ page.navs = n /\ Available(page))
      ~> (page.reportInterval \/ page.navs # n \/ ~Available(page))

----------------------------------------------------------------------------
(* Persistence, frame conditions and the badge text *)

\* C21: the persistence timer writes the record list from the mapping as it
\* is when the timer fires and leaves the mapping alone; whenever the stored
\* list differs from the mapping a persistence timer gets pending, so that no
\* change of the mapping stays without a scheduled write; and once the
\* changes have stopped and the timer has fired, the stored list is the
\* content of the mapping for good.
C21_EventuallyPersisted ==
  /\ [][last'.op = "persist" =>
          /\ storage'.tabDurationsCache = Array(tabDurations)
          /\ tabDurations' = tabDurations]_vars
  /\ (storage.tabDurationsCache # Array(tabDurations)) ~> persistTimeout
  /\ <>[](storage.tabDurationsCache = Array(tabDurations))

\* The timer fired after the scan had dropped a record and ended, and wrote
\* the list without it
C21_Witness ==
  /\ last.op = "persist"
  /\ boot = "done"
  /\ events = 0
  /\ MapKeys(tabDurations) = {1}
  /\ storage.tabDurationsCache = Array(tabDurations)

\* C22: toggleDisplay and getPopupData leave the record mapping as it is, and
\* getPopupData also leaves the preference and the badge as they are; pushes,
\* pull responses and failures, tab removals, navigation events and the bulk
\* reconciliation leave the display preference as it is.
C22_FrameConditions ==
  [][/\ last'.op \in {"toggleDisplay", "getPopupData"} =>
          tabDurations' = tabDurations
     /\ last'.op = "getPopupData" =>
          /\ displayEnabled' = displayEnabled
          /\ badgeText' = badgeText
     /\ last'.op \in {"reportDuration", "pullResponse", "pullFail",
                      "onRemoved", "onUpdated", "onHistoryStateUpdated",
                      "scan"} =>
          displayEnabled' = displayEnabled]_vars

\* The popup asked for its data while the badge was switched off and a record
\* was still loading
C22_Witness ==
  /\ last.op = "getPopupData"
  /\ ~displayEnabled
  /\ \E i \in 1..Len(tabDurations) : tabDurations[i].isLoading

\* The step from a state with startup position was to one with position is
\* reached by a handler that repainted the badge: op is the history of the step
Repainted(op, was, is) ==
  \/ op.op \in {"restore", "toggleDisplay", "pullResponse"}
  \/ op.op = "reportDuration" /\ op.tabId # NoTab
  \/ op.op = "onRemoved" /\ op.before.record # "none"
  \/ LeftTrackedPage(op) /\ op.before.record # "none"
  \/ op.op \in {"scan", "pullFail"} /\ was # "done" /\ is = "done"

\* The record contributes to the aggregate: it is not loading and its
\* remaining time is finite and positive
HasRemaining(info) ==
  /\ ~info.isLoading
  /\ IsFinite(Remaining(info))
  /\ Remaining(info).v > 0

\* C23: with the preference true a repaint sets the badge text to the compact
\* formatting of the aggregate when the aggregate is greater than 0 and to the
\* empty text, not "0m", when it is 0; after a repaint the badge is non-empty
\* exactly when the preference is true and some record that is not loading
\* has positive remaining time.
C23_BadgeOfRepaint ==
  [][Repainted(last', boot, boot') =>
       LET total == calculateTotalRemaining(tabDurations')
       IN /\ displayEnabled' /\ total > 0 =>
               badgeText' = formatDuration(total)
          /\ displayEnabled' /\ total = 0 => badgeText' = ""
          /\ badgeText' # "" <=>
               /\ displayEnabled'
               /\ \E i \in 1..Len(tabDurations') :
                     HasRemaining(tabDurations'[i])]_vars

\* A repaint with the preference true found records and an aggregate of 0
C23_Witness ==
  /\ Repainted(last, "done", boot)
  /\ displayEnabled
  /\ tabDurations # <<>>
  /\ calculateTotalRemaining(tabDurations) = 0
  /\ badgeText = ""

----------------------------------------------------------------------------
(* The periodic reporting timer *)

\* C24: a page's extractor has at most one periodic reporting timer active
\* at any time, and it is the one reportInterval holds: whatever resolutions,
\* element-ready signals, observer callbacks and navigations have happened,
\* starting periodic reporting cancelled the previous timer first.
C24_OnePeriodicTimer ==
  /\ page.href # "" =>
       /\ page.intervals <= 1
       /\ page.reportInterval <=> page.intervals = 1

\* A signal of the video element reached two listeners, each of which
\* started periodic reporting
C24_Witness ==
  /\ last.op = "videoEvent"
  /\ Len(page.out) = 2
  /\ page.started
  /\ page.intervals = 1

====
